---- MODULE Spec2Model ----
(***************************************************************************)
(* A model of price_monitor.py: the scan orchestrator (main_loop,          *)
(* scan_website, scan_category) with its shared seen_products set and its  *)
(* persisted seen_products.json, the fetcher (make_request), and the price *)
(* parser and extractor (parse_price, parse_products).                     *)
(*                                                                         *)
(* The specifications of the module share its variables:                   *)
(*   Spec       the run loop, the worker pool and the dedup store;         *)
(*   SpecFetch  one call of make_request, attempt by attempt;              *)
(*   SpecPrice  parse_price and the price extraction of parse_products     *)
(*              applied to bounded inputs;                                 *)
(*   SpecPages  get_all_pages applied to bounded category pages;           *)
(*   SpecCats   get_all_categories applied to bounded base pages;          *)
(*   SpecStore  save_seen_products then load_seen_products, character by   *)
(*              character through the JSON text of seen_products.json.     *)
(* Prices of the run loop are whole currency units; the parser works on    *)
(* exact decimals (mantissa and number of fraction digits).                *)
(***************************************************************************)
EXTENDS Integers, Sequences, FiniteSets, TLC

VARIABLES
    \* ---- configuration (config.json, read at startup) ----
    base_url,           \* what config["base_url"] holds: "valid", "empty", "malformed"
    parallel_workers,   \* config["parallel_workers"]
    \* ---- the run loop and the dedup store ----
    mpc,                \* where the main thread is
    seen_products,      \* the module-level set seen_products
    file,               \* seen_products.json on disk
    price,              \* the site: the price each product url shows now
    categories,         \* the categories scan_website discovered this cycle
    task,               \* per category: the scan_category call submitted to the pool
    aggregated,         \* the futures as_completed has yielded so far
    total_checked, total_found, categories_with_errors,
    summary_sent,       \* whether main_loop sent a cycle summary this cycle
    \* ---- history (not program state) ----
    sent,               \* per SeenKey: per-product notifier calls in this cycle
    finders,            \* per SeenKey: the tasks that counted it as found this cycle
    runSent,            \* keys notified in earlier cycles of this run; once the
                        \* process has ended, every key the ended run notified
    undelivered,        \* keys of this cycle for which send_telegram_alert
                        \* returned False
    durable             \* keys this run notified before a save of this run that
                        \* completed, with no save cut short or failed mid-write
                        \* since

VARIABLES
    \* ---- one call of make_request (SpecFetch) ----
    max_retries,        \* the argument max_retries
    attempt,            \* the loop variable
    fpc,                \* where the call is: "delay", "get", "backoff", "returned"
    result,             \* "pending", "response" or "None"
    events              \* history: the sleeps and GETs of the call, in order

VARIABLES
    \* ---- parse_price and parse_products on one input (SpecPrice) ----
    ppc,                \* "text" / "page": the input not yet parsed; "done"
    price_text,         \* the argument of parse_price
    parsed,             \* what parse_price returned
    containers,         \* the product containers found on the page
    products            \* what parse_products returned

VARIABLES
    \* ---- one call of get_all_pages (SpecPages) ----
    gpc,                \* "call": not yet called; "done"
    category_url,       \* the argument category_url
    response,           \* what make_request(sorted_url) gives and what the
                        \* pagination selectors match on the page
    pages,              \* what get_all_pages returned
    pages_raised        \* history: whether the except at 392 was taken

VARIABLES
    \* ---- one save and load of the seen set (SpecStore) ----
    spc,                \* "save": not yet saved; "load": saved; "done": loaded
    store_keys,         \* the set seen_products holds when it is saved
    store_text,         \* the text of seen_products.json
    store_loaded        \* the set seen_products holds after the load

VARIABLES
    \* ---- one call of get_all_categories (SpecCats) ----
    cpc,                \* "call": not yet called; "done"
    menu,               \* what make_request(base_url) gives and what the menu
                        \* selectors match on the base page
    discovered,         \* the urls get_all_categories returned, as a set
    cats_raised         \* history: whether the call ended in an exception

fetchVars == <<max_retries, attempt, fpc, result, events>>
pagesVars == <<gpc, category_url, response, pages, pages_raised>>
storeVars == <<spc, store_keys, store_text, store_loaded>>
catsVars == <<cpc, menu, discovered, cats_raised>>
funcVars == <<pagesVars, storeVars, catsVars>>
priceVars == <<ppc, price_text, parsed, containers, products>>

mainVars == <<base_url, parallel_workers, mpc, seen_products, file, price,
              categories, task, aggregated, total_checked, total_found,
              categories_with_errors, summary_sent,
              sent, finders, undelivered, runSent, durable>>

vars == <<mainVars, fetchVars, priceVars, funcVars>>

(***************************************************************************)
(* Bounds and program constants                                            *)
(***************************************************************************)
\* the largest worker count the configurations of the model take
MaxWorkers == 2

\* DEFAULT_CONFIG["max_price"], the alert threshold
max_price == 10

BaseUrlKinds == {"valid", "empty", "malformed"}

\* The site of the model: two categories, the first with a second listing page.
Categories == {"c1", "c2"}
Urls == {"u1", "u2"}
Prices == {5, 10, 15}

\* the prices the site may show for a product: those of u1 move below, to and
\* above the threshold, u2 stays at the threshold
PricesOf(u) == IF u = "u1" THEN Prices ELSE {max_price}

\* the first (sorted) page of a category, and the pages its pagination links to
SortedPage(c) == <<c, 1>>
PaginationLinks(c) == IF c = "c1" THEN << <<c, 2>> >> ELSE <<>>

\* the product urls a listing page shows, in document order
Listing(pg) ==
    IF pg = <<"c1", 1>> THEN <<"u1", "u2">>
    ELSE IF pg = <<"c1", 2>> THEN <<"u2">>
    ELSE <<"u1">>

\* product_id = f"{product['url']}_{product['price']}": the url, "_", the
\* price's repr.  No price repr holds "_", so the string determines the pair
\* and the pair stands for the string.
ProductId(p) == <<p.url, p.price>>

Keys == Urls \X Prices

(***************************************************************************)
(* The dedup store's file                                                  *)
(***************************************************************************)
\* The run loop keeps the file as the elements of its JSON array: the order
\* list(seen_products) writes them in is dropped by set(json.load(f)).
NoFile == [st |-> "absent", content |-> {}]

\* the loader without its global statement, which binds a local and leaves
\* the module-level set empty: what C10 must tell apart
load_seen_products_local(f) == {}

\* load_seen_products: the file's list as a set; a missing file leaves the
\* empty module-level set, a file that does not parse resets it to set()
load_seen_products(f) ==
    IF f.st = "valid" THEN f.content ELSE {}

\* save_seen_products, when open and json.dump both succeed
save_seen_products(seen) == [st |-> "valid", content |-> seen]

\* a save cut short or failing after open(..., 'w') truncated the file
TruncatedFile == [st |-> "corrupt", content |-> {}]

(***************************************************************************)
(* scan_category, one call per category                                    *)
(***************************************************************************)
IdleTask ==
    [pc |-> "idle", pages |-> <<>>, page_ix |-> 0, filtered |-> <<>>,
     prod_ix |-> 0, products_checked |-> 0, products_found |-> 0,
     had_errors |-> FALSE, fetches |-> "none", raised |-> FALSE]

\* the fetch history of a task: no request yet, every request failed so far,
\* or some request succeeded
NoteFetch(old, ok) ==
    IF ok THEN "ok" ELSE IF old = "none" THEN "failed" ELSE old

\* return products_checked, products_found, had_errors (line 672)
ScanCategoryReturn(t) ==
    [IdleTask EXCEPT !.pc = "done",
                     !.products_checked = t.products_checked,
                     !.products_found = t.products_found,
                     !.had_errors = t.had_errors,
                     !.fetches = t.fetches,
                     !.raised = t.raised]

\* the handler returning had_errors as it stands: what C7 must tell apart
ScanCategoryExceptNoFlag(t) ==
    [IdleTask EXCEPT !.pc = "done",
                     !.products_checked = t.products_checked,
                     !.products_found = t.products_found,
                     !.had_errors = t.had_errors,
                     !.fetches = t.fetches,
                     !.raised = TRUE]

\* except Exception: return products_checked, products_found, True (674-676)
ScanCategoryExcept(t) ==
    [IdleTask EXCEPT !.pc = "done",
                     !.products_checked = t.products_checked,
                     !.products_found = t.products_found,
                     !.had_errors = TRUE,
                     !.fetches = t.fetches,
                     !.raised = TRUE]

\* the two for loops of scan_category: the next product of the page, else
\* the next page, else the return
NextStep(t) ==
    IF t.prod_ix <= Len(t.filtered) THEN [t EXCEPT !.pc = "check"]
    ELSE IF t.page_ix < Len(t.pages)
         THEN [t EXCEPT !.pc = "parse", !.page_ix = @ + 1,
                        !.filtered = <<>>, !.prod_ix = 0]
         ELSE ScanCategoryReturn(t)

\* the threshold test with < written for <=: what C12 must tell apart
WithinThresholdStrict(p) == p.price < max_price

\* filtered_products = [p for p in products if p['price'] <= max_price]
WithinThreshold(p) == p.price <= max_price
FilterProducts(found) == SelectSeq(found, WithinThreshold)

\* what parse_products extracts from a fetched page: one candidate per
\* listed product, with the price the site shows now
PageProducts(pg) ==
    [i \in DOMAIN Listing(pg) |->
        [url |-> Listing(pg)[i], price |-> price[Listing(pg)[i]]]]

Running == {c \in Categories : task[c].pc \notin {"idle", "queued", "done"}}


(***************************************************************************)
(* make_request (265-283)                                                  *)
(***************************************************************************)
\* the largest max_retries argument the model calls make_request with
MaxRetriesArg == 4

\* the default of the parameter max_retries, which every caller uses
DefaultMaxRetries == 3

\* the requests.exceptions.RequestException a GET attempt may end with
\* (raise_for_status raises the last for a 4xx or 5xx answer)
RequestExceptions == {"Timeout", "ConnectionError", "HTTPError"}

\* if attempt == max_retries - 1 (278)
IsLastAttempt(a, m) == a = m - 1

\* the backoff with * written for **: what C4 must tell apart
BackoffSecondsLinear(a) == 2 * a

\* time.sleep(2 ** attempt) (281)
BackoffSeconds(a) == 2 ^ a

\* an entry of the call's history
Event(kind, outcome, seconds) ==
    [kind |-> kind, outcome |-> outcome, seconds |-> seconds]

FetchInit ==
    /\ max_retries \in 0..MaxRetriesArg
    /\ attempt = 0
    /\ fpc = "delay"
    /\ result = "pending"
    /\ events = <<>>

\* the parked call, in the specifications that are not about make_request
FetchParked ==
    /\ max_retries = DefaultMaxRetries
    /\ attempt = 0
    /\ fpc = "returned"
    /\ result = "None"
    /\ events = <<>>

\* for attempt in range(max_retries): time.sleep(request_delay) (271-273)
FetchDelay ==
    /\ fpc = "delay"
    /\ attempt < max_retries
    /\ events' = Append(events, Event("delay", "", 0))
    /\ fpc' = "get"
    /\ UNCHANGED <<max_retries, attempt, result, mainVars, priceVars, funcVars>>

\* range(max_retries) is exhausted: return None (283)
FetchLoopExit ==
    /\ fpc = "delay"
    /\ attempt >= max_retries
    /\ result' = "None"
    /\ fpc' = "returned"
    /\ UNCHANGED <<max_retries, attempt, events, mainVars, priceVars, funcVars>>

\* requests.get and raise_for_status pass: return response (274-276)
FetchGetOk ==
    /\ fpc = "get"
    /\ events' = Append(events, Event("get", "ok", 0))
    /\ result' = "response"
    /\ fpc' = "returned"
    /\ UNCHANGED <<max_retries, attempt, mainVars, priceVars, funcVars>>

\* the attempt raises a RequestException: after the last attempt return
\* None, otherwise go on to the backoff sleep (277-281)
FetchGetFails(e) ==
    /\ fpc = "get"
    /\ events' = Append(events, Event("get", e, 0))
    /\ IF IsLastAttempt(attempt, max_retries)
       THEN result' = "None" /\ fpc' = "returned"
       ELSE result' = result /\ fpc' = "backoff"
    /\ UNCHANGED <<max_retries, attempt, mainVars, priceVars, funcVars>>

\* time.sleep(2 ** attempt), then the next turn of the loop (281, 271)
FetchBackoff ==
    /\ fpc = "backoff"
    /\ events' = Append(events, Event("backoff", "", BackoffSeconds(attempt)))
    /\ attempt' = attempt + 1
    /\ fpc' = "delay"
    /\ UNCHANGED <<max_retries, result, mainVars, priceVars, funcVars>>

FetchNext ==
    \/ FetchDelay
    \/ FetchLoopExit
    \/ FetchGetOk
    \/ \E e \in RequestExceptions : FetchGetFails(e)
    \/ FetchBackoff

(***************************************************************************)
(* parse_price (213-262): texts are sequences of characters, prices exact   *)
(* decimals                                                                *)
(***************************************************************************)
\* the longest text the model generates from GenAlphabet
MaxTextLen == 3

\* the most price elements of a container in the model
MaxPriceElems == 2

\* the ceiling of the sanity check (257, 585)
PriceCeiling == 999999

Digits == {"0", "1", "2", "3", "4", "5", "6", "7", "8", "9"}
DigitValue(ch) ==
    CASE ch = "0" -> 0 [] ch = "1" -> 1 [] ch = "2" -> 2 [] ch = "3" -> 3
      [] ch = "4" -> 4 [] ch = "5" -> 5 [] ch = "6" -> 6 [] ch = "7" -> 7
      [] ch = "8" -> 8 [] ch = "9" -> 9

LowerLetters == {"a", "b", "c", "d", "e", "f", "g", "h", "i", "j", "k", "l", "m",
                 "n", "o", "p", "q", "r", "s", "t", "u", "v", "w", "x", "y", "z"}
UpperLetters == {"A", "B", "C", "D", "E", "F", "G", "H", "I", "J", "K", "L", "M",
                 "N", "O", "P", "Q", "R", "S", "T", "U", "V", "W", "X", "Y", "Z"}
Whitespace == {" "}

\* the class [A-Za-z\s€$£RON] of the re.sub at 223; of the currency signs
\* the model's texts hold "$" only
StrippedChars == LowerLetters \cup UpperLetters \cup Whitespace \cup {"$"}

\* the texts of the specification's examples and of the extractor's filters
TextEuropean == <<"1", ".", "9", "9", "9", ",", "0", "0">>
TextUS == <<"1", ",", "9", "9", "9", ".", "0", "0">>
TextPlainComma == <<"9", ",", "9", "9">>
TextDotThousands == <<"1", ".", "9", "9", "9">>
TextPercent == <<"1", "5", "%", " ", "o", "f", "f">>
TextZero == <<"0", ",", "0", "0">>
TextHuge == <<"1", "5", "0", "0", "0", "0", "0">>
TextCeiling == <<"9", "9", "9", "9", "9", "9">>
TextOverCeiling == <<"9", "9", "9", "9", "9", "9", ".", "5">>
TextLei == <<"1", "2", ",", "5", "0", " ", "l", "e", "i">>
TextNegative == <<"-", "5">>
TextSave == <<"s", "a", "v", "e", " ", "5", ",", "0", "0">>
TextEco == <<"E", "c", "o", " ", "1", ",", "0", "0">>
TextDiscount == <<"d", "i", "s", "c", "o", "u", "n", "t", " ", "2", ",", "0", "0">>
TextDollar == <<"$", "7">>
TextWord == <<"n", "e", "w">>
TextPadded == <<" ", "3", ",", "5", "0", " ">>

ExampleTexts ==
    {TextEuropean, TextUS, TextPlainComma, TextDotThousands, TextPercent,
     TextZero, TextHuge, TextCeiling, TextOverCeiling, TextLei, TextNegative,
     TextSave, TextEco, TextDiscount, TextDollar, TextWord, TextPadded}

\* every text of at most MaxTextLen characters over a small alphabet
GenAlphabet == {"0", "1", "9", ".", ",", "%", "e", "-"}
GenTexts == UNION {[1..n -> GenAlphabet] : n \in 0..MaxTextLen}

PriceTexts == ExampleTexts \cup GenTexts

\* ---- string helpers, as the str methods behave ----
Range(s) == {s[i] : i \in DOMAIN s}
Contains(s, ch) == \E i \in DOMAIN s : s[i] = ch
CountOf(s, ch) == Cardinality({i \in DOMAIN s : s[i] = ch})
\* str.rfind and str.index, 0-based; rfind is -1 when ch does not occur
RFind(s, ch) ==
    IF Contains(s, ch)
    THEN (CHOOSE i \in DOMAIN s : s[i] = ch /\ \A j \in DOMAIN s : s[j] = ch => j <= i) - 1
    ELSE -1
IndexOf(s, ch) ==
    (CHOOSE i \in DOMAIN s : s[i] = ch /\ \A j \in DOMAIN s : s[j] = ch => i <= j) - 1
\* re.sub(class, '', s) and s.replace(ch, '')
RemoveAll(s, chars) ==
    LET Kept(ch) == ch \notin chars IN SelectSeq(s, Kept)
\* s.replace(a, b) for single characters
ReplaceChar(s, a, b) == [i \in DOMAIN s |-> IF s[i] = a THEN b ELSE s[i]]
\* whether the word w occurs in s
HasWord(s, w) ==
    \E i \in 1..(Len(s) - Len(w) + 1) : SubSeq(s, i, i + Len(w) - 1) = w
LowerChar(ch) ==
    IF ch \in UpperLetters
    THEN CHOOSE l \in LowerLetters :
            \E i \in 1..26 : /\ <<"A", "B", "C", "D", "E", "F", "G", "H", "I", "J",
                                  "K", "L", "M", "N", "O", "P", "Q", "R", "S", "T",
                                  "U", "V", "W", "X", "Y", "Z">>[i] = ch
                             /\ <<"a", "b", "c", "d", "e", "f", "g", "h", "i", "j",
                                  "k", "l", "m", "n", "o", "p", "q", "r", "s", "t",
                                  "u", "v", "w", "x", "y", "z">>[i] = l
    ELSE ch
\* str.lower
Lower(s) == [i \in DOMAIN s |-> LowerChar(s[i])]
\* str.strip
RECURSIVE Strip(_)
Strip(s) ==
    IF s = <<>> THEN s
    ELSE IF Head(s) \in Whitespace THEN Strip(Tail(s))
    ELSE IF s[Len(s)] \in Whitespace THEN Strip(SubSeq(s, 1, Len(s) - 1))
    ELSE s

\* ---- exact decimals ----
\* a price: inf, or sign, integer part, fraction digits read as a number,
\* and how many fraction digits there are
Inf == [inf |-> TRUE, neg |-> FALSE, ip |-> 0, fp |-> 0, fd |-> 0]
Decimal(neg, ip, fp, fd) == [inf |-> FALSE, neg |-> neg, ip |-> ip, fp |-> fp, fd |-> fd]

RECURSIVE DigitsValue(_)
DigitsValue(ds) ==
    IF ds = <<>> THEN 0
    ELSE 10 * DigitsValue(SubSeq(ds, 1, Len(ds) - 1)) + DigitValue(ds[Len(ds)])

\* float(s) for the texts of the model: an optional sign, then digits with
\* at most one point and at least one digit; anything else is a ValueError,
\* which the except at 261 turns into inf
ParseFloat(s) ==
    LET signed == s # <<>> /\ Head(s) \in {"-", "+"}
        body == IF signed THEN Tail(s) ELSE s
        dot == IF Contains(body, ".") THEN IndexOf(body, ".") + 1 ELSE Len(body) + 1
        whole == SubSeq(body, 1, dot - 1)
        frac == SubSeq(body, dot + 1, Len(body))
    IN IF /\ \A i \in DOMAIN body : body[i] \in Digits \cup {"."}
          /\ CountOf(body, ".") <= 1
          /\ Len(whole) + Len(frac) >= 1
       THEN Decimal(signed /\ Head(s) = "-", DigitsValue(whole),
                    DigitsValue(frac), Len(frac))
       ELSE Inf

IsZero(v) == v.ip = 0 /\ v.fp = 0
\* price <= 0
NotPositive(v) == v.neg \/ IsZero(v)
\* price > 999999
AboveCeiling(v) ==
    ~v.neg /\ (v.ip > PriceCeiling \/ (v.ip = PriceCeiling /\ v.fp > 0))

\* the sanity check without its floor: what C6 must tell apart
SanityCheckNoFloor(v) ==
    IF v.inf \/ AboveCeiling(v) THEN Inf ELSE v

\* the sanity check at 257: if price <= 0 or price > 999999: return inf
SanityCheck(v) ==
    IF v.inf \/ NotPositive(v) \/ AboveCeiling(v) THEN Inf ELSE v

\* the separator rules (234-252), on the text left by the re.sub
NormalizeSeparators(t) ==
    LET dot_count == CountOf(t, ".")
        comma_count == CountOf(t, ",")
    IN IF comma_count > 0 /\ dot_count > 0
       THEN IF RFind(t, ",") > RFind(t, ".")
            THEN ReplaceChar(RemoveAll(t, {"."}), ",", ".")
            ELSE RemoveAll(t, {","})
       ELSE IF comma_count > 0
       THEN IF comma_count = 1 /\ IndexOf(t, ",") > Len(t) - 4
            THEN ReplaceChar(t, ",", ".")
            ELSE RemoveAll(t, {","})
       ELSE IF dot_count > 1
       THEN RemoveAll(t, {"."})
       ELSE t

parse_price(text) ==
    IF text = <<>> THEN Inf
    ELSE IF Contains(text, "%") THEN Inf
    ELSE SanityCheck(ParseFloat(NormalizeSeparators(RemoveAll(text, StrippedChars))))

(***************************************************************************)
(* parse_products: the fields of one container (466-600)                   *)
(***************************************************************************)
\* A container as the extractor reads it: whether a title and a product
\* link are found (470-527), the link's href, whether the url matches an
\* exclusion pattern (590), the texts of the elements the price selectors
\* match, in the order the two loops at 547-549 visit them, and the text
\* nodes find_all(string=True) returns.
Container(id, has_title, has_link, excluded, price_elems, text_nodes) ==
    [id |-> id, has_title |-> has_title, has_link |-> has_link,
     excluded |-> excluded, price_elems |-> price_elems,
     text_nodes |-> text_nodes]

WordDiscount == <<"d", "i", "s", "c", "o", "u", "n", "t">>
WordSave == <<"s", "a", "v", "e">>
WordEco == <<"e", "c", "o">>
WordLei == <<"l", "e", "i">>
WordRon == <<"r", "o", "n">>

\* test_price != float('inf') and test_price > 0 (556, 576)
Accepted(v) == ~v.inf /\ ~NotPositive(v)

\* the text filter of the selector pass (552-553)
PassesSelectorFilter(text) ==
    /\ text # <<>>
    /\ ~Contains(text, "%")
    /\ ~HasWord(Lower(text), WordDiscount)
    /\ ~HasWord(Lower(text), WordSave)
    /\ ~HasWord(Lower(text), WordEco)

\* the text filter of the fallback pass (571-574)
PassesFallbackFilter(text) ==
    /\ \E i \in DOMAIN text : text[i] \in Digits
    /\ \/ HasWord(Lower(text), WordLei)
       \/ HasWord(Lower(text), WordRon)
       \/ Contains(text, "$")
       \/ Contains(text, ",")
    /\ ~Contains(text, "%")
    /\ ~HasWord(Lower(text), WordDiscount)

\* the first text of texts, after strip, that passes the filter and parses
\* to an accepted price; none when no text does
FirstPrice(texts, Passes(_)) ==
    LET good == {i \in DOMAIN texts :
                    Passes(Strip(texts[i])) /\ Accepted(parse_price(Strip(texts[i])))}
    IN IF good = {} THEN Inf
       ELSE parse_price(Strip(texts[CHOOSE i \in good : \A j \in good : i <= j]))

\* price = float('inf'), the selector pass, then the fallback pass over the
\* text nodes if no price element was accepted (532-578)
ExtractPrice(c) ==
    LET by_selector == FirstPrice(c.price_elems, PassesSelectorFilter)
    IN IF ~by_selector.inf THEN by_selector
       ELSE FirstPrice(c.text_nodes, PassesFallbackFilter)

\* one turn of the loop over the containers: the candidate appended, or
\* nothing when a continue is taken (502, 525, 580, 585, 590)
ExtractCandidate(c) ==
    IF ~c.has_title THEN <<>>
    ELSE IF ~c.has_link THEN <<>>
    ELSE LET found == ExtractPrice(c)
         IN IF found.inf THEN <<>>
            ELSE IF NotPositive(found) \/ AboveCeiling(found) THEN <<>>
            ELSE IF c.excluded THEN <<>>
            ELSE << [title |-> "title", price |-> found, url |-> c.id] >>

RECURSIVE parse_products(_)
parse_products(cs) ==
    IF cs = <<>> THEN <<>>
    ELSE ExtractCandidate(Head(cs)) \o parse_products(Tail(cs))

\* the containers of the model's pages
ElemTexts == {TextPlainComma, TextPercent, TextSave, TextZero, TextHuge, TextWord}
NodeTexts == {TextLei, TextSave, TextDiscount, TextDollar, TextPadded, TextHuge}
ElemLists == UNION {[1..n -> ElemTexts] : n \in 0..MaxPriceElems}
NodeLists == UNION {[1..n -> NodeTexts] : n \in 0..1}
PoolContainers ==
    {Container("a", t, l, x, es, ns) :
        t \in BOOLEAN, l \in BOOLEAN, x \in BOOLEAN, es \in ElemLists, ns \in NodeLists}
PlainContainer == Container("b", TRUE, TRUE, FALSE, <<TextPlainComma>>, <<TextPlainComma>>)
ContainerLists ==
    {<<c>> : c \in PoolContainers} \cup {<<c, PlainContainer>> : c \in PoolContainers}

PriceInit ==
    /\ \/ ppc = "text" /\ price_text \in PriceTexts /\ containers = <<>>
       \/ ppc = "page" /\ price_text = <<>> /\ containers \in ContainerLists
    /\ parsed = Inf
    /\ products = <<>>

\* the parked parser, in the specifications that are not about it
PriceParked ==
    /\ ppc = "done"
    /\ price_text = <<>>
    /\ parsed = Inf
    /\ containers = <<>>
    /\ products = <<>>

ParsePriceCall ==
    /\ ppc = "text"
    /\ parsed' = parse_price(price_text)
    /\ ppc' = "done"
    /\ UNCHANGED <<price_text, containers, products, mainVars, fetchVars, funcVars>>

ParseProductsCall ==
    /\ ppc = "page"
    /\ products' = parse_products(containers)
    /\ ppc' = "done"
    /\ UNCHANGED <<price_text, parsed, containers, mainVars, fetchVars, funcVars>>

PriceNext ==
    \/ ParsePriceCall
    \/ ParseProductsCall

(***************************************************************************)
(* get_all_pages (355-396): urls and hrefs are sequences of tokens         *)
(***************************************************************************)
\* the most hrefs the first matching pagination selector finds on a page
MaxLinks == 2

\* the length of pagination_selectors (372-379)
PaginationSelectors == 6

SortParam == "sort_by=price_asc"

\* the category urls of the model: one without and one with a query string
CategoryUrls ==
    {<<"https://shop.example", "/", "c">>,
     <<"https://shop.example", "/", "c", "?", "f=1">>}

\* separator = '&' if '?' in category_url else '?' (360)
separator(url) == IF Contains(url, "?") THEN "&" ELSE "?"
\* sorted_url = f"{category_url}{separator}sort_by=price_asc" (361)
sorted_url(url) == url \o <<separator(url), SortParam>>

\* the hrefs the test at 386 passes over: href and href not in ['#',
\* 'javascript:void(0)']
SkippedHrefs == {<<>>, <<"#">>, <<"javascript:void(0)">>}
\* an href urljoin raises ValueError("Invalid IPv6 URL") on
BadHref == <<"http://[bad">>
\* the hrefs of the model's pages: a skipped one, two page links, a link to
\* the sorted first page, and the one urljoin raises on
Hrefs == {<<"#">>, <<"?", "page=2">>, <<"?", "page=3">>, <<"?", SortParam>>, BadHref}

\* urljoin(base, href).  A url is its origin, then the tokens of its path
\* and query.  An href that is a query string replaces the query of the
\* base, one that starts with "/" replaces its path and query, and one that
\* starts with an origin is the result itself.
urljoin(base, href) ==
    IF Head(href) = "?"
    THEN (IF Contains(base, "?") THEN SubSeq(base, 1, IndexOf(base, "?")) ELSE base) \o href
    ELSE IF Head(href) = "/" THEN <<Head(base)>> \o href
    ELSE href

\* the loop over pagination_links (384-389): the pages after the links, and
\* whether urljoin raised on the way
RECURSIVE AppendLinks(_, _, _)
AppendLinks(base, acc, links) ==
    IF links = <<>> THEN [pages |-> acc, raised |-> FALSE]
    ELSE LET href == Head(links)
         IN IF href \in SkippedHrefs THEN AppendLinks(base, acc, Tail(links))
            ELSE IF href = BadHref THEN [pages |-> acc, raised |-> TRUE]
            ELSE LET full_url == urljoin(base, href)
                 IN AppendLinks(base,
                                IF full_url \in Range(acc) THEN acc
                                ELSE Append(acc, full_url),
                                Tail(links))

\* get_all_pages: pages = [sorted_url]; a failed fetch returns it (366-367);
\* the first selector with matches adds its links and ends the loop (381-390);
\* the except at 392 keeps what pages holds when the exception is raised
get_all_pages(url, resp) ==
    LET first == <<sorted_url(url)>>
        matching == {i \in 1..PaginationSelectors : resp.matches[i] # <<>>}
    IN IF resp.status = "None" THEN [pages |-> first, raised |-> FALSE]
       ELSE IF resp.status = "unparsable" THEN [pages |-> first, raised |-> TRUE]
       ELSE IF matching = {} THEN [pages |-> first, raised |-> FALSE]
       ELSE AppendLinks(url, first,
                        resp.matches[CHOOSE i \in matching : \A j \in matching : i <= j])

\* the pages of the model: no selector matches, or one does with up to
\* MaxLinks hrefs, and a later one may match one href more
LinkLists == UNION {[1..n -> Hrefs] : n \in 1..MaxLinks}
NoMatches == [i \in 1..PaginationSelectors |-> <<>>]
MatchTables ==
    {NoMatches}
    \cup {[NoMatches EXCEPT ![i] = l] : i \in 1..PaginationSelectors, l \in LinkLists}
    \cup {[NoMatches EXCEPT ![ij[1]] = l, ![ij[2]] = <<h>>] :
            ij \in {p \in (1..PaginationSelectors) \X (1..PaginationSelectors) :
                      p[1] < p[2]},
            l \in LinkLists, h \in Hrefs}
\* make_request returned None; BeautifulSoup raised on the content; the page
\* was parsed and the selectors match what the table says
Responses ==
    {[status |-> "None", matches |-> NoMatches],
     [status |-> "unparsable", matches |-> NoMatches]}
    \cup {[status |-> "ok", matches |-> m] : m \in MatchTables}

PagesInit ==
    /\ gpc = "call"
    /\ category_url \in CategoryUrls
    /\ response \in Responses
    /\ pages = <<>>
    /\ pages_raised = FALSE

\* the parked call, in the specifications that are not about get_all_pages
PagesParked ==
    /\ gpc = "done"
    /\ category_url = <<>>
    /\ response = [status |-> "None", matches |-> NoMatches]
    /\ pages = <<>>
    /\ pages_raised = FALSE

GetAllPagesCall ==
    /\ gpc = "call"
    /\ pages' = get_all_pages(category_url, response).pages
    /\ pages_raised' = get_all_pages(category_url, response).raised
    /\ gpc' = "done"
    /\ UNCHANGED <<category_url, response, mainVars, fetchVars, priceVars, storeVars, catsVars>>

PagesNext == GetAllPagesCall


(***************************************************************************)
(* get_all_categories (286-352)                                            *)
(***************************************************************************)
\* the most hrefs the first matching menu selector finds on the base page
MaxMenuLinks == 2

\* the length of menu_selectors (298-308)
MenuSelectors == 9

\* config["base_url"] of the model's site
BaseUrl == <<"https://shop.example">>

\* if not href or href in ['#', '/', '']: continue (317)
SkippedMenuHrefs == {<<>>, <<"#">>, <<"/">>}
\* of excluded_keywords (329-338) and excluded_url_patterns (32) the ones
\* the model's hrefs hold
ExcludedKeywords == {"cart", "login"}
ExcludedUrlPatterns == {"gift-card"}

\* the hrefs of the model's base page: a skipped one, three categories, a
\* cart link, a gift-card link, a link to another site, and the one urljoin
\* raises on
MenuHrefs ==
    {<<"/">>, <<"/", "shoes">>, <<"/", "bags">>, <<"https://shop.example", "/", "hats">>,
     <<"/", "cart">>, <<"/", "gift-card">>, <<"https://other.example", "/", "shoes">>,
     BadHref}

\* full_url.startswith(base_url) (324)
StartsWith(url, prefix) ==
    Len(url) >= Len(prefix) /\ SubSeq(url, 1, Len(prefix)) = prefix

\* the tests of 317-346 on one href: whether its url is added to categories
IsCategoryLink(base, href) ==
    /\ href \notin SkippedMenuHrefs
    /\ StartsWith(urljoin(base, href), base)
    /\ Range(urljoin(base, href)) \cap ExcludedKeywords = {}
    /\ Range(urljoin(base, href)) \cap ExcludedUrlPatterns = {}

\* the loop over the links of one selector (315-348): the set after them, and
\* whether urljoin raised on the way
RECURSIVE AddLinks(_, _, _)
AddLinks(base, acc, links) ==
    IF links = <<>> THEN [categories |-> acc, raised |-> FALSE]
    ELSE LET href == Head(links)
         IN IF href \in SkippedMenuHrefs THEN AddLinks(base, acc, Tail(links))
            ELSE IF href = BadHref THEN [categories |-> acc, raised |-> TRUE]
            ELSE AddLinks(base,
                          IF IsCategoryLink(base, href)
                          THEN acc \cup {urljoin(base, href)} ELSE acc,
                          Tail(links))

\* the loop over menu_selectors (310-348), from selector i on: every
\* selector's links are added, none ends the loop
RECURSIVE AddSelectors(_, _, _, _)
AddSelectors(base, acc, matches, i) ==
    IF i > MenuSelectors THEN [categories |-> acc, raised |-> FALSE]
    ELSE LET got == AddLinks(base, acc, matches[i])
         IN IF got.raised THEN got
            ELSE AddSelectors(base, got.categories, matches, i + 1)

\* get_all_categories: [] when the fetch failed (291-292), else what the
\* selectors' links add; an exception leaves the function
get_all_categories(base, resp) ==
    IF resp.status = "None" THEN [categories |-> {}, raised |-> FALSE]
    ELSE AddSelectors(base, {}, resp.matches, 1)

\* the base pages of the model: no selector matches, or one does with up to
\* MaxMenuLinks hrefs, and a later one may match one href more
MenuLinkLists == UNION {[1..n -> MenuHrefs] : n \in 1..MaxMenuLinks}
NoMenuMatches == [i \in 1..MenuSelectors |-> <<>>]
MenuTables ==
    {NoMenuMatches}
    \cup {[NoMenuMatches EXCEPT ![i] = l] : i \in 1..MenuSelectors, l \in MenuLinkLists}
    \cup {[NoMenuMatches EXCEPT ![ij[1]] = l, ![ij[2]] = <<h>>] :
            ij \in {<<1, 2>>, <<1, 3>>, <<2, MenuSelectors>>},
            l \in MenuLinkLists, h \in MenuHrefs}
MenuResponses ==
    {[status |-> "None", matches |-> NoMenuMatches]}
    \cup {[status |-> "ok", matches |-> m] : m \in MenuTables}

CatsInit ==
    /\ cpc = "call"
    /\ menu \in MenuResponses
    /\ discovered = {}
    /\ cats_raised = FALSE

\* the parked call, in the specifications that are not about
\* get_all_categories
CatsParked ==
    /\ cpc = "done"
    /\ menu = [status |-> "None", matches |-> NoMenuMatches]
    /\ discovered = {}
    /\ cats_raised = FALSE

GetAllCategoriesCall ==
    /\ cpc = "call"
    /\ LET got == get_all_categories(BaseUrl, menu)
       IN /\ discovered' = (IF got.raised THEN {} ELSE got.categories)
          /\ cats_raised' = got.raised
    /\ cpc' = "done"
    /\ UNCHANGED <<menu, mainVars, fetchVars, priceVars, pagesVars, storeVars>>

CatsNext == GetAllCategoriesCall

(***************************************************************************)
(* seen_products.json as text: json.dump(list(seen_products), f, indent=2, *)
(* ensure_ascii=False) (208) and set(json.load(f)) (200)                   *)
(***************************************************************************)
\* the longest key of the model, in characters
MaxKeyLen == 2

DQ == "\""
BS == "\\"
LF == "\n"
JsonWhitespace == {" ", LF}

\* the characters of the model's keys: two plain ones, the item separator,
\* and the two characters json.dump escapes
KeyChars == {"a", "n", ",", DQ, BS}
KeyTexts == UNION {[1..n -> KeyChars] : n \in 0..MaxKeyLen}

\* the sets saved: empty, one key, two keys, and one of three
KeySets ==
    {{}} \cup {{k} : k \in KeyTexts} \cup {{k, l} : k \in KeyTexts, l \in KeyTexts}
         \cup {{<<"a">>, <<DQ>>, <<BS, "n">>}}

\* list(seen_products): the elements in some order
Orders(S) ==
    {l \in [1..Cardinality(S) -> S] : \A i, j \in DOMAIN l : l[i] = l[j] => i = j}

\* a string without escaping: what C13 must tell apart
JsonEscapeNone(ch) == <<ch>>

\* how json.dump writes one character of a string
JsonEscape(ch) ==
    IF ch = DQ THEN <<BS, DQ>>
    ELSE IF ch = BS THEN <<BS, BS>>
    ELSE IF ch = LF THEN <<BS, "n">>
    ELSE <<ch>>

RECURSIVE JsonEscapeAll(_)
JsonEscapeAll(key) ==
    IF key = <<>> THEN <<>> ELSE JsonEscape(Head(key)) \o JsonEscapeAll(Tail(key))

JsonString(key) == <<DQ>> \o JsonEscapeAll(key) \o <<DQ>>

\* indent=2: every item on a line of its own behind two spaces
RECURSIVE JsonItems(_)
JsonItems(list) ==
    IF Len(list) = 1 THEN <<LF, " ", " ">> \o JsonString(list[1])
    ELSE <<LF, " ", " ">> \o JsonString(Head(list)) \o <<",">> \o JsonItems(Tail(list))

json_dump(list) ==
    IF list = <<>> THEN <<"[", "]">>
    ELSE <<"[">> \o JsonItems(list) \o <<LF, "]">>

\* json.load: a scanner over the text.  A string runs from its opening quote
\* to the next quote that no backslash escapes.
JsonError == [ok |-> FALSE, str |-> <<>>, next |-> 0]

RECURSIVE ScanString(_, _, _)
ScanString(text, i, acc) ==
    IF i > Len(text) THEN JsonError
    ELSE IF text[i] = DQ THEN [ok |-> TRUE, str |-> acc, next |-> i + 1]
    ELSE IF text[i] = LF THEN JsonError
    ELSE IF text[i] = BS
         THEN IF i + 1 > Len(text) THEN JsonError
              ELSE IF text[i + 1] \in {DQ, BS}
                   THEN ScanString(text, i + 2, Append(acc, text[i + 1]))
              ELSE IF text[i + 1] = "n"
                   THEN ScanString(text, i + 2, Append(acc, LF))
              ELSE JsonError
    ELSE ScanString(text, i + 1, Append(acc, text[i]))

\* the array: items separated by commas, whitespace between the tokens;
\* expect is what may come next: "first" (an item or the end), "item",
\* "more" (a comma or the end), "end" (nothing but whitespace)
RECURSIVE ScanList(_, _, _, _)
ScanList(text, i, items, expect) ==
    IF i > Len(text)
    THEN [ok |-> expect = "end", items |-> items]
    ELSE IF text[i] \in JsonWhitespace THEN ScanList(text, i + 1, items, expect)
    ELSE IF expect \in {"first", "item"} /\ text[i] = DQ
         THEN LET got == ScanString(text, i + 1, <<>>)
              IN IF got.ok THEN ScanList(text, got.next, Append(items, got.str), "more")
                 ELSE [ok |-> FALSE, items |-> <<>>]
    ELSE IF expect = "more" /\ text[i] = "," THEN ScanList(text, i + 1, items, "item")
    ELSE IF expect \in {"first", "more"} /\ text[i] = "]"
         THEN ScanList(text, i + 1, items, "end")
    ELSE [ok |-> FALSE, items |-> <<>>]

json_load(text) ==
    IF text # <<>> /\ Head(text) = "["
    THEN ScanList(text, 2, <<>>, "first")
    ELSE [ok |-> FALSE, items |-> <<>>]

\* load_seen_products on the text: set(json.load(f)), and set() when the
\* bare except at 201 catches the parser's error
LoadText(text) ==
    IF json_load(text).ok THEN Range(json_load(text).items) ELSE {}

StoreInit ==
    /\ spc = "save"
    /\ store_keys \in KeySets
    /\ store_text = <<>>
    /\ store_loaded = {}

\* the parked store, in the specifications that are not about the file's text
StoreParked ==
    /\ spc = "done"
    /\ store_keys = {}
    /\ store_text = <<>>
    /\ store_loaded = {}

\* save_seen_products, the write completing (207-208)
StoreSave ==
    /\ spc = "save"
    /\ \E l \in Orders(store_keys) : store_text' = json_dump(l)
    /\ spc' = "load"
    /\ UNCHANGED <<store_keys, store_loaded, mainVars, fetchVars, priceVars, pagesVars, catsVars>>

\* load_seen_products, the file being there (197-202)
StoreLoad ==
    /\ spc = "load"
    /\ store_loaded' = LoadText(store_text)
    /\ spc' = "done"
    /\ UNCHANGED <<store_keys, store_text, mainVars, fetchVars, priceVars, pagesVars, catsVars>>

StoreNext ==
    \/ StoreSave
    \/ StoreLoad

FuncParked == PagesParked /\ StoreParked /\ CatsParked

(***************************************************************************)
(* The initial state: a first run, before __main__ calls main_loop         *)
(***************************************************************************)
NoneSent == [k \in Keys |-> 0]
NoFinders == [k \in Keys |-> {}]
SentKeys == {k \in Keys : sent[k] > 0}

MainInit ==
    /\ base_url \in BaseUrlKinds
    /\ parallel_workers \in 1..MaxWorkers
    /\ mpc = "start"
    /\ seen_products = {}
    /\ file = NoFile
    /\ price \in {f \in [Urls -> Prices] : \A u \in Urls : f[u] \in PricesOf(u)}
    /\ categories = {}
    /\ task = [c \in Categories |-> IdleTask]
    /\ aggregated = {}
    /\ total_checked = 0
    /\ total_found = 0
    /\ categories_with_errors = 0
    /\ summary_sent = FALSE
    /\ sent = NoneSent
    /\ finders = NoFinders
    /\ undelivered = {}
    /\ runSent = {}
    /\ durable = {}

\* what no step of the run loop changes: the configuration, and the variables
\* of the other two specifications
configVars == <<base_url, parallel_workers, fetchVars, priceVars, funcVars>>
totalVars == <<total_checked, total_found, categories_with_errors>>
cycleHistory == <<sent, finders, undelivered>>
runHistory == <<runSent, durable>>

(***************************************************************************)
(* __main__ and main_loop                                                  *)
(***************************************************************************)
\* The process ends (an exception leaves __main__, or it is stopped): what it
\* held in memory is gone, the file and the site stay.  The history keeps the
\* keys the run notified.
ProcessEnds(how) ==
    /\ mpc' = how
    /\ seen_products' = {}
    /\ categories' = {}
    /\ task' = [c \in Categories |-> IdleTask]
    /\ aggregated' = {}
    /\ total_checked' = 0
    /\ total_found' = 0
    /\ categories_with_errors' = 0
    /\ summary_sent' = FALSE
    /\ runSent' = runSent \cup SentKeys
    /\ sent' = NoneSent
    /\ finders' = NoFinders
    /\ undelivered' = {}
    /\ UNCHANGED <<configVars, price>>

\* __main__ (780-804) reads the configuration and calls main_loop, which
\* loads the seen set (729) and enters the while loop.  base_url is not
\* examined on this path.
MainLoopStart ==
    /\ mpc = "start"
    /\ seen_products' = load_seen_products(file)
    /\ mpc' = "scan"
    /\ UNCHANGED <<configVars, file, price, categories, task, aggregated,
                   totalVars, summary_sent, cycleHistory, runHistory>>

\* scan_website: make_request(base_url) returned None (it does for every
\* request when the base url has no scheme or host), so get_all_categories
\* returns [] and scan_website returns 0, 0, 0 (683-685)
DiscoverFetchFailed ==
    /\ mpc = "scan"
    /\ categories' = {}
    /\ mpc' = "save"
    /\ UNCHANGED <<configVars, seen_products, file, price, task, aggregated,
                   totalVars, summary_sent, cycleHistory, runHistory>>

\* get_all_categories: the base page was fetched and a step outside any try
\* (BeautifulSoup, soup.select, urljoin on a link's href) raised; nothing
\* between there and __main__ catches it, and __main__ re-raises (808-810)
DiscoverRaises ==
    /\ mpc = "scan"
    /\ base_url = "valid"
    /\ ProcessEnds("crashed")
    /\ UNCHANGED <<file, durable>>

\* get_all_categories returned cats; an empty list ends scan_website at once,
\* otherwise every category is submitted to the pool (693-694)
DiscoverCategories(cats) ==
    /\ mpc = "scan"
    /\ base_url = "valid"
    /\ categories' = cats
    /\ IF cats = {}
       THEN /\ mpc' = "save"
            /\ UNCHANGED task
       ELSE /\ mpc' = "pool"
            /\ task' = [c \in Categories |->
                          IF c \in cats THEN [IdleTask EXCEPT !.pc = "queued"]
                          ELSE IdleTask]
    /\ UNCHANGED <<configVars, seen_products, file, price, aggregated,
                   totalVars, summary_sent, cycleHistory, runHistory>>

(***************************************************************************)
(* The worker pool: the steps of one scan_category call                    *)
(***************************************************************************)
taskFrame == <<configVars, mpc, file, price, categories, aggregated,
               totalVars, summary_sent, runHistory>>

\* a free worker takes the queued call
TaskStart(c) ==
    /\ mpc = "pool"
    /\ task[c].pc = "queued"
    /\ Cardinality(Running) < parallel_workers
    /\ task' = [task EXCEPT ![c].pc = "pages"]
    /\ UNCHANGED <<taskFrame, seen_products, cycleHistory>>

\* get_all_pages: the sorted page was fetched; the first pagination selector
\* with matches adds its links
GetAllPagesOk(c) ==
    /\ mpc = "pool"
    /\ task[c].pc = "pages"
    /\ task' = [task EXCEPT ![c] =
                  [@ EXCEPT !.pc = "parse",
                            !.pages = <<SortedPage(c)>> \o PaginationLinks(c),
                            !.page_ix = 1,
                            !.fetches = NoteFetch(@, TRUE)]]
    /\ UNCHANGED <<taskFrame, seen_products, cycleHistory>>

\* get_all_pages: make_request returned None (366-367)
GetAllPagesFetchFailed(c) ==
    /\ mpc = "pool"
    /\ task[c].pc = "pages"
    /\ task' = [task EXCEPT ![c] =
                  [@ EXCEPT !.pc = "parse",
                            !.pages = <<SortedPage(c)>>,
                            !.page_ix = 1,
                            !.fetches = NoteFetch(@, FALSE)]]
    /\ UNCHANGED <<taskFrame, seen_products, cycleHistory>>

\* get_all_pages: reading the fetched page raised after some of its links were
\* appended; the except at 392 keeps the pages found so far
GetAllPagesRaises(c) ==
    /\ mpc = "pool"
    /\ task[c].pc = "pages"
    /\ \E n \in 0..Len(PaginationLinks(c)) :
          task' = [task EXCEPT ![c] =
                  [@ EXCEPT !.pc = "parse",
                            !.pages = <<SortedPage(c)>> \o SubSeq(PaginationLinks(c), 1, n),
                            !.page_ix = 1,
                            !.fetches = NoteFetch(@, TRUE)]]
    /\ UNCHANGED <<taskFrame, seen_products, cycleHistory>>

\* parse_products(page_url) returned the page's candidates; the threshold
\* filter and products_checked += len(filtered_products) (646-652)
ParseProductsOk(c) ==
    /\ mpc = "pool"
    /\ task[c].pc = "parse"
    /\ LET t == task[c]
           kept == FilterProducts(PageProducts(t.pages[t.page_ix]))
       IN task' = [task EXCEPT ![c] =
                     NextStep([t EXCEPT !.filtered = kept,
                                        !.prod_ix = 1,
                                        !.products_checked = @ + Len(kept),
                                        !.fetches = NoteFetch(@, TRUE)])]
    /\ UNCHANGED <<taskFrame, seen_products, cycleHistory>>

\* parse_products: make_request returned None, so it returned [] (402-403)
ParseProductsFetchFailed(c) ==
    /\ mpc = "pool"
    /\ task[c].pc = "parse"
    /\ LET t == task[c]
       IN task' = [task EXCEPT ![c] =
                     NextStep([t EXCEPT !.filtered = <<>>,
                                        !.prod_ix = 1,
                                        !.fetches = NoteFetch(@, FALSE)])]
    /\ UNCHANGED <<taskFrame, seen_products, cycleHistory>>

\* the statement the task is about to run inside the try of scan_category
\* raises an Exception: the handler at 674 returns the counts so far.  The
\* notification is not among them: send_telegram_alert catches what its
\* post raises (628-630).
TaskRaises(c) ==
    /\ mpc = "pool"
    /\ task[c].pc \in {"parse", "check", "record"}
    /\ task' = [task EXCEPT ![c] = ScanCategoryExcept(@)]
    /\ UNCHANGED <<taskFrame, seen_products, cycleHistory>>

CurrentProduct(t) == t.filtered[t.prod_ix]

\* if product_id not in seen_products (658): the test alone
CheckSeen(c) ==
    /\ mpc = "pool"
    /\ task[c].pc = "check"
    /\ LET t == task[c]
       IN task' = [task EXCEPT ![c] =
                     IF ProductId(CurrentProduct(t)) \notin seen_products
                     THEN [t EXCEPT !.pc = "record"]
                     ELSE NextStep([t EXCEPT !.prod_ix = @ + 1])]
    /\ UNCHANGED <<taskFrame, seen_products, cycleHistory>>

\* seen_products.add(product_id); products_found += 1 (659-660)
RecordSeen(c) ==
    /\ mpc = "pool"
    /\ task[c].pc = "record"
    /\ LET k == ProductId(CurrentProduct(task[c]))
       IN /\ seen_products' = seen_products \cup {k}
          /\ finders' = [finders EXCEPT ![k] = @ \cup {c}]
    /\ task' = [task EXCEPT ![c].pc = "notify", ![c].products_found = @ + 1]
    /\ UNCHANGED <<taskFrame, sent, undelivered>>

\* send_telegram_alert(msg, ...) (670) returns delivered: True when the post
\* was answered 200, False when Telegram is disabled, the post failed or
\* raised (614-630).  scan_category drops the result and goes on.
Notify(c, delivered) ==
    /\ mpc = "pool"
    /\ task[c].pc = "notify"
    /\ LET k == ProductId(CurrentProduct(task[c]))
       IN /\ sent' = [sent EXCEPT ![k] = @ + 1]
          /\ undelivered' = (IF delivered THEN undelivered ELSE undelivered \cup {k})
    /\ task' = [task EXCEPT ![c] = NextStep([@ EXCEPT !.prod_ix = @ + 1])]
    /\ UNCHANGED <<taskFrame, seen_products, finders>>

(***************************************************************************)
(* scan_website: draining the futures                                      *)
(***************************************************************************)
\* the turn of the loop adding the checked count to total_found: what C16
\* must tell apart
AggregateChecked(c) ==
    /\ mpc = "pool"
    /\ c \in categories \ aggregated
    /\ task[c].pc = "done"
    /\ aggregated' = aggregated \cup {c}
    /\ total_checked' = total_checked + task[c].products_checked
    /\ total_found' = total_found + task[c].products_checked
    /\ categories_with_errors' =
           categories_with_errors + (IF task[c].had_errors THEN 1 ELSE 0)
    /\ UNCHANGED <<configVars, mpc, seen_products, file, price, categories,
                   task, summary_sent, cycleHistory, runHistory>>

\* one turn of the as_completed loop (697-704)
Aggregate(c) ==
    /\ mpc = "pool"
    /\ c \in categories \ aggregated
    /\ task[c].pc = "done"
    /\ aggregated' = aggregated \cup {c}
    /\ total_checked' = total_checked + task[c].products_checked
    /\ total_found' = total_found + task[c].products_found
    /\ categories_with_errors' =
           categories_with_errors + (IF task[c].had_errors THEN 1 ELSE 0)
    /\ UNCHANGED <<configVars, mpc, seen_products, file, price, categories,
                   task, summary_sent, cycleHistory, runHistory>>

\* the return moved into the as_completed loop, so that the first drained
\* future ends scan_website: what C15 must tell apart
ScanWebsiteReturnEarly ==
    /\ mpc = "pool"
    /\ aggregated # {}
    /\ mpc' = "save"
    /\ UNCHANGED <<configVars, seen_products, file, price, categories, task,
                   aggregated, totalVars, summary_sent, cycleHistory, runHistory>>

\* the loop is exhausted, the executor is left, the totals are returned (717)
ScanWebsiteReturn ==
    /\ mpc = "pool"
    /\ aggregated = categories
    /\ mpc' = "save"
    /\ UNCHANGED <<configVars, seen_products, file, price, categories, task,
                   aggregated, totalVars, summary_sent, cycleHistory, runHistory>>

(***************************************************************************)
(* main_loop: persist, summary, sleep                                      *)
(***************************************************************************)
saveFrame == <<configVars, seen_products, price, categories, task, aggregated,
               totalVars, summary_sent, cycleHistory, runSent>>

\* save_seen_products wrote the whole list (206-208)
SaveOk ==
    /\ mpc = "save"
    /\ file' = save_seen_products(seen_products)
    /\ durable' = durable \cup runSent \cup SentKeys
    /\ mpc' = "summary"
    /\ UNCHANGED saveFrame

\* open(..., 'w') raised: the file is as it was, the error is logged (209-210)
SaveOpenFails ==
    /\ mpc = "save"
    /\ mpc' = "summary"
    /\ UNCHANGED <<saveFrame, file, durable>>

\* json.dump raised after open truncated the file (209-210)
SaveWriteFails ==
    /\ mpc = "save"
    /\ file' = TruncatedFile
    /\ durable' = {}
    /\ mpc' = "summary"
    /\ UNCHANGED saveFrame

\* the cycle summary, sent only if anything was found or errored (752-759)
Summary ==
    /\ mpc = "summary"
    /\ summary_sent' = (total_found > 0 \/ categories_with_errors > 0)
    /\ mpc' = "sleep"
    /\ UNCHANGED <<configVars, seen_products, file, price, categories, task,
                   aggregated, totalVars, cycleHistory, runHistory>>

\* time.sleep(wait_time) is over and the next iteration begins (764, 733)
Sleep ==
    /\ mpc = "sleep"
    /\ mpc' = "scan"
    /\ categories' = {}
    /\ task' = [c \in Categories |-> IdleTask]
    /\ aggregated' = {}
    /\ total_checked' = 0
    /\ total_found' = 0
    /\ categories_with_errors' = 0
    /\ summary_sent' = FALSE
    /\ runSent' = runSent \cup SentKeys
    /\ sent' = NoneSent
    /\ finders' = NoFinders
    /\ undelivered' = {}
    /\ UNCHANGED <<configVars, seen_products, file, price, durable>>

(***************************************************************************)
(* The environment: interruption, restart, the site changing its prices    *)
(***************************************************************************)
InCycle == {"scan", "pool", "save", "summary", "sleep"}

\* the process is stopped from outside (KeyboardInterrupt, 766-767, 805)
Interrupt ==
    /\ mpc \in InCycle
    /\ ProcessEnds("stopped")
    /\ UNCHANGED <<file, durable>>

\* the process is stopped while save_seen_products is writing
InterruptDuringSave ==
    /\ mpc = "save"
    /\ ProcessEnds("stopped")
    /\ file' = TruncatedFile
    /\ durable' = {}

\* the script is started again: module state is fresh, the files are kept
Restart ==
    /\ mpc \in {"stopped", "crashed"}
    /\ mpc' = "start"
    /\ runSent' = {}
    /\ durable' = {}
    /\ UNCHANGED <<configVars, seen_products, file, price, categories, task,
                   aggregated, totalVars, summary_sent, cycleHistory>>

\* the site shows another price for a product; the model lets the site change
\* between two cycles, so that one cycle reads one price per product
PriceChange(u, p) ==
    /\ mpc = "sleep"
    /\ p \in PricesOf(u) \ {price[u]}
    /\ price' = [price EXCEPT ![u] = p]
    /\ UNCHANGED <<configVars, mpc, seen_products, file, categories, task,
                   aggregated, totalVars, summary_sent, cycleHistory, runHistory>>

MainNext ==
    \/ MainLoopStart
    \/ DiscoverFetchFailed
    \/ DiscoverRaises
    \/ \E cats \in SUBSET Categories : DiscoverCategories(cats)
    \/ \E c \in Categories :
          \/ TaskStart(c)
          \/ GetAllPagesOk(c)
          \/ GetAllPagesFetchFailed(c)
          \/ GetAllPagesRaises(c)
          \/ ParseProductsOk(c)
          \/ ParseProductsFetchFailed(c)
          \/ TaskRaises(c)
          \/ CheckSeen(c)
          \/ RecordSeen(c)
          \/ \E delivered \in BOOLEAN : Notify(c, delivered)
          \/ Aggregate(c)
    \/ ScanWebsiteReturn
    \/ SaveOk
    \/ SaveOpenFails
    \/ SaveWriteFails
    \/ Summary
    \/ Sleep
    \/ Interrupt
    \/ InterruptDuringSave
    \/ Restart
    \/ \E u \in Urls, p \in Prices : PriceChange(u, p)

\* the main thread's parked state, in the specifications that are not about
\* the run loop
MainParked ==
    /\ MainInit
    /\ base_url = "valid"
    /\ parallel_workers = 1
    /\ price = [u \in Urls |-> max_price]

\* the run loop, the worker pool and the dedup store
Init == MainInit /\ FetchParked /\ PriceParked /\ FuncParked
Next == MainNext
Spec == Init /\ [][Next]_vars

\* one call of make_request
InitFetch == MainParked /\ FetchInit /\ PriceParked /\ FuncParked
SpecFetch == InitFetch /\ [][FetchNext]_vars

\* parse_price on one text, parse_products on one page
InitPrice == MainParked /\ FetchParked /\ PriceInit /\ FuncParked
SpecPrice == InitPrice /\ [][PriceNext]_vars

\* one call of get_all_pages
InitPages ==
    MainParked /\ FetchParked /\ PriceParked /\ PagesInit /\ StoreParked /\ CatsParked
SpecPages == InitPages /\ [][PagesNext]_vars

\* one save of the seen set and the load that follows it
InitStore ==
    MainParked /\ FetchParked /\ PriceParked /\ PagesParked /\ StoreInit /\ CatsParked
SpecStore == InitStore /\ [][StoreNext]_vars

\* one call of get_all_categories
InitCats ==
    MainParked /\ FetchParked /\ PriceParked /\ PagesParked /\ StoreParked /\ CatsInit
SpecCats == InitCats /\ [][CatsNext]_vars

(***************************************************************************)
(* Claims about the run loop, checked under Spec                           *)
(***************************************************************************)
AfterScan == {"save", "summary", "sleep"}

\* C1: the check-and-record of the dedup store is synchronized: within one
\* cycle, of the tasks that extract the same (url, price) at most one finds
\* the key unseen, so the key is counted as found by one task and notified
\* once.
C1_CheckAndRecordIsAtomic ==
    \A k \in Keys : Cardinality(finders[k]) <= 1 /\ sent[k] <= 1

Times(k) == (IF k \in runSent THEN 1 ELSE 0) + sent[k]

\* C2: over the cycles of one run a (url, price) pair is notified at most
\* once: never again on a re-scan once it was notified, and exactly once
\* when a url first shows a new price at or below the threshold.
C2_EachPairNotifiedOncePerRun ==
    mpc \in InCycle => \A k \in Keys : Times(k) <= 1

\* C3: a category all of whose fetches failed (make_request returned None
\* after its retries) reports 0 checked, 0 found and the error flag, and so
\* adds exactly 1 to the error-category count.
C3_FailedFetchIsAnErrorCategory ==
    \A c \in categories :
        (task[c].pc = "done" /\ task[c].fetches = "failed")
            => /\ task[c].products_checked = 0
               /\ task[c].products_found = 0
               /\ task[c].had_errors

PoolStep ==
    \/ ScanWebsiteReturn
    \/ \E c \in Categories :
          \/ TaskStart(c) \/ GetAllPagesOk(c) \/ ParseProductsOk(c)
          \/ CheckSeen(c) \/ RecordSeen(c) \/ Notify(c, TRUE) \/ Aggregate(c)

C8_OnlyAnInterruptEndsTheRun ==
    mpc # "crashed"

\* C9: with an absent or malformed base url the program fails before the
\* scan cycle: it never enters the cycle loop.
C9_BadBaseUrlNeverEntersTheLoop ==
    base_url # "valid" => mpc \notin InCycle

\* C10: at whatever point of the cycle the run was stopped, every key it
\* notified is in the set the next run's load_seen_products reads.
C10_EveryNotifiedKeySurvivesAStop ==
    mpc = "stopped" => runSent \subseteq load_seen_products(file)

\* C10, for saved keys: a key notified before a completed save of the run, with
\* no later save of that run cut short or failed mid-write, is in the set
\* the next run's load_seen_products reads, and stays in the seen set for
\* the rest of the run that saved it.
C10_SavedKeysSurviveAStop ==
    /\ mpc = "stopped" => durable \subseteq load_seen_products(file)
    /\ mpc \in InCycle => durable \subseteq seen_products

\* C10 witness: the run was stopped with one notified key saved and another
\* notified key missing from the file.
C10_Witness ==
    /\ mpc = "stopped"
    /\ durable # {}
    /\ runSent \ load_seen_products(file) # {}

\* the products a task holds after the threshold filter, and the products
\* its current page shows
Kept(t) == Range(t.filtered)
Shown(t) == Range(PageProducts(t.pages[t.page_ix]))

\* C12: the threshold comparison is inclusive: of the products a page shows,
\* the task keeps and counts exactly those priced at or below the threshold,
\* one priced exactly at the threshold included, and no per-product
\* notification is ever sent for a price above the threshold.
C12_ThresholdIsInclusive ==
    /\ \A k \in Keys : (sent[k] > 0 \/ k \in runSent) => k[2] <= max_price
    /\ \A k \in seen_products : k[2] <= max_price
    /\ \A c \in Categories :
          task[c].pc \in {"check", "record", "notify"} =>
              /\ Kept(task[c]) = {p \in Shown(task[c]) : ~(p.price > max_price)}
              /\ task[c].products_checked >= Len(task[c].filtered)

\* C12 witness: of the two products of a page, the one priced exactly at the
\* threshold was kept, counted and notified, the one priced above it dropped.
C12_Witness ==
    /\ mpc = "pool"
    /\ price["u1"] > max_price
    /\ price["u2"] = max_price
    /\ task["c1"].pc = "parse"
    /\ task["c1"].page_ix = 2
    /\ task["c1"].products_checked = 1
    /\ task["c1"].products_found = 1
    /\ seen_products = {<<"u2", max_price>>}
    /\ sent[<<"u2", max_price>>] = 1
    /\ sent[<<"u1", price["u1"]>>] = 0

\* the order of the main thread's steps within a run
CycleOrder ==
    {<<"start", "scan">>, <<"scan", "pool">>, <<"scan", "save">>,
     <<"pool", "save">>, <<"save", "summary">>, <<"summary", "sleep">>,
     <<"sleep", "scan">>}
ProcessEnd == {"stopped", "crashed"}

C15_Step ==
    /\ mpc' # mpc =>
          \/ <<mpc, mpc'>> \in CycleOrder
          \/ mpc' \in ProcessEnd
          \/ mpc \in ProcessEnd /\ mpc' = "start"
    /\ (mpc = "scan" /\ mpc' = "pool") => categories' # {}
    /\ (mpc = "scan" /\ mpc' = "save") => categories' = {}
    /\ mpc' \in AfterScan =>
          /\ aggregated' = categories'
          /\ \A c \in Categories : task'[c].pc \in {"idle", "done"}
    /\ file' # file => mpc = "save"
    /\ (seen_products' # seen_products /\ mpc' \notin ProcessEnd) =>
          mpc \in {"start", "pool"}
    /\ categories' # categories => mpc \in {"scan", "sleep"} \/ mpc' \in ProcessEnd

\* C15: in every cycle the main thread goes from category discovery to the
\* pool, the save, (the summary,) the sleep and the next discovery, in that
\* order; the save is reached only when every submitted task is done and
\* aggregated; the file is written in the save step only; no step at or
\* after the save changes the seen set; a cycle that discovers no category
\* goes from discovery to the save.
C15_CycleStepsAreOrdered == [][C15_Step]_vars

\* C15 witness: after a cycle that notified and saved, the next cycle
\* discovered no category and stands at its save.
C15_Witness ==
    /\ mpc = "save"
    /\ categories = {}
    /\ runSent # {}
    /\ file = save_seen_products(runSent)

RECURSIVE SumOver(_, _)
SumOver(S, field) ==
    IF S = {} THEN 0
    ELSE LET c == CHOOSE x \in S : TRUE
         IN (IF field = "checked" THEN task[c].products_checked
             ELSE task[c].products_found) + SumOver(S \ {c}, field)

\* the totals are the sums over the outcomes drained so far
TotalsAreSums ==
    /\ aggregated \subseteq categories
    /\ \A c \in aggregated : task[c].pc = "done"
    /\ \A c \in Categories \ categories : task[c].pc = "idle"
    /\ total_checked = SumOver(aggregated, "checked")
    /\ total_found = SumOver(aggregated, "found")
    /\ categories_with_errors =
           Cardinality({c \in aggregated : task[c].had_errors \/ task[c].raised})
    /\ mpc \in AfterScan => aggregated = categories

C16_Step ==
    /\ TotalsAreSums'
    /\ \A c \in Categories :
          \* a task starts from the queue only, and a finished or drained task
          \* stays so until the cycle or the process ends
          /\ (task[c].pc # "pages" /\ task'[c].pc = "pages") => task[c].pc = "queued"
          /\ (task[c].pc = "done" /\ task'[c] # task[c]) =>
                 (mpc = "sleep" \/ mpc' \in ProcessEnd)
          /\ (c \in aggregated /\ c \notin aggregated') =>
                 (mpc = "sleep" \/ mpc' \in ProcessEnd)

\* C16: in every cycle, in whatever order the tasks complete, every
\* discovered category is scanned once and its outcome drained once: the
\* totals are the sums of the drained tasks' checked and found counts, the
\* error count is the number of drained tasks that reported the error flag
\* or raised, and after the pool every discovered category is drained.
C16_EachOutcomeAggregatedOnce == [][C16_Step]_vars

\* C16 witness: two categories, one scanned to its end with 3 checked and 2
\* found, the other ended by an exception after 1 checked: the cycle stands
\* at its save with 4 checked, 2 found and 1 error category.
C16_Witness ==
    /\ mpc = "save"
    /\ categories = Categories
    /\ task["c1"].products_checked = 3
    /\ task["c1"].products_found = 2
    /\ task["c2"].products_checked = 1
    /\ task["c2"].raised
    /\ total_checked = 4
    /\ total_found = 2
    /\ categories_with_errors = 1

\* the tasks that call the notifier in this step, and the key they call it for
Notifying(c) == mpc' = "pool" /\ task[c].pc = "notify" /\ task'[c] # task[c]
NotifiedKey(c) == ProductId(CurrentProduct(task[c]))

C17_Step ==
    /\ \A c \in Categories :
          Notifying(c) =>
              \* recorded and counted before the notifier is called
              /\ NotifiedKey(c) \in seen_products
              /\ c \in finders[NotifiedKey(c)]
              /\ task[c].products_found > 0
              \* whatever the notifier returns: the key stays, the count
              \* stays, the task goes on to the next candidate, page or return
              /\ seen_products' = seen_products
              /\ task'[c].products_found = task[c].products_found
              /\ task'[c] = NextStep([task[c] EXCEPT !.prod_ix = @ + 1])
              /\ ~task'[c].raised /\ ~task'[c].had_errors
    \* a pair whose notification failed is not notified again
    /\ mpc' = "pool" =>
          \A k \in undelivered : k \in seen_products /\ sent'[k] = sent[k]
    /\ \A k \in undelivered' : sent'[k] <= 1 /\ k \notin runSent

\* C17: a new key is recorded and counted as found before the notifier is
\* called, and the notifier's result is ignored: when the notification
\* fails the key stays recorded, the product stays counted, the scan goes on
\* with the next candidate, and the pair is never notified again in the run.
C17_FailedAlertIsNotRetried == [][C17_Step]_vars

(***************************************************************************)
(* Claims about make_request, checked under SpecFetch                      *)
(***************************************************************************)
Gets == {i \in DOMAIN events : events[i].kind = "get"}
LastEvent == events[Len(events)]

\* C4: the call's events are: delay, GET, and after each failed GET that is
\* not the last attempt a backoff of 2^k seconds (k the attempt, from 0)
\* followed by delay and GET; at most max_retries GETs are made; the first
\* successful GET ends the call with its response; after the last failed GET
\* the call returns None with no backoff sleep.
C4_RequestEventOrder ==
    /\ \A i \in DOMAIN events :
          /\ i % 3 = 1 => events[i].kind = "delay"
          /\ i % 3 = 2 => events[i].kind = "get"
          /\ i % 3 = 0 => /\ events[i].kind = "backoff"
                          /\ events[i].seconds = 2 ^ ((i \div 3) - 1)
                          /\ events[i - 1].outcome \in RequestExceptions
          /\ events[i].outcome = "ok" => i = Len(events)
    /\ Cardinality(Gets) <= max_retries
    /\ fpc # "returned" => result = "pending"
    /\ (events # <<>> /\ LastEvent.outcome = "ok") => fpc = "returned"
    /\ fpc = "returned" =>
          \/ /\ result = "response"
             /\ events # <<>>
             /\ LastEvent = Event("get", "ok", 0)
          \/ /\ result = "None"
             /\ Cardinality(Gets) = max_retries
             /\ \A i \in Gets : events[i].outcome \in RequestExceptions
             /\ events # <<>> => LastEvent.kind = "get"

\* C4 witness: a call with the default three attempts failed three times:
\* delay, GET, 1 s, delay, GET, 2 s, delay, GET, and None returned.
C4_Witness ==
    /\ fpc = "returned"
    /\ result = "None"
    /\ max_retries = DefaultMaxRetries
    /\ Len(events) = 8
    /\ events[6].seconds = 2

(***************************************************************************)
(* Claims about the price parser and the extractor, checked under SpecPrice *)
(***************************************************************************)
\* the decimal v equals ip + fp / 10^fd
ValueIs(v, ip, fp, fd) ==
    ~v.inf /\ ~v.neg /\ v.ip = ip /\ v.fp * (10 ^ fd) = fp * (10 ^ v.fd)

\* C5: parse_price maps "1.999,00" and "1,999.00" to 1999.00, "9,99" to
\* 9.99, "1.999" to 1999, and "15% off", "0,00" and "1500000" to Invalid.
C5_ParserExamples ==
    ppc = "done" =>
        /\ price_text = TextEuropean => ValueIs(parsed, 1999, 0, 0)
        /\ price_text = TextUS => ValueIs(parsed, 1999, 0, 0)
        /\ price_text = TextPlainComma => ValueIs(parsed, 9, 99, 2)
        /\ price_text = TextDotThousands => ValueIs(parsed, 1999, 0, 0)
        /\ price_text \in {TextPercent, TextZero, TextHuge} => parsed.inf

InRange(v) == ~v.inf /\ ~NotPositive(v) /\ ~AboveCeiling(v)
TextsOf(c) == Range(c.price_elems) \cup Range(c.text_nodes)

\* C6: parse_price returns inf or a price in (0, 999999]; every candidate
\* parse_products returns carries a price in that range that parse_price
\* produced from a text of its container; a container none of whose texts
\* parses yields no candidate.
C6_CandidatePricesAreParsed ==
    ppc = "done" =>
        /\ parsed.inf \/ InRange(parsed)
        /\ \A i \in DOMAIN products :
              /\ InRange(products[i].price)
              /\ \E j \in DOMAIN containers :
                    /\ containers[j].id = products[i].url
                    /\ \E text \in TextsOf(containers[j]) :
                          parse_price(Strip(text)) = products[i].price
        /\ \A j \in DOMAIN containers :
              (\A text \in TextsOf(containers[j]) : parse_price(Strip(text)).inf)
                  => \A i \in DOMAIN products : products[i].url # containers[j].id

\* C6 witness: a page of two containers, the first with a title, a link and
\* price elements none of which parses, the second with a parseable price:
\* only the second became a candidate.
C6_Witness ==
    /\ ppc = "done"
    /\ Len(containers) = 2
    /\ containers[1].has_title /\ containers[1].has_link /\ ~containers[1].excluded
    /\ containers[1].price_elems # <<>>
    /\ \A text \in TextsOf(containers[1]) : parse_price(Strip(text)).inf
    /\ Len(products) = 1
    /\ products[1].url = "b"
    /\ ValueIs(products[1].price, 9, 99, 2)

(***************************************************************************)
(* Claims about get_all_pages, checked under SpecPages                     *)
(***************************************************************************)
NoDuplicates(seq) == \A i, j \in DOMAIN seq : seq[i] = seq[j] => i = j

\* C11: whatever the fetch of the sorted page gives, get_all_pages returns a
\* non-empty list without duplicates whose first element is the category
\* url with the ascending-price sort parameter appended; when the fetch
\* failed or an exception was raised while reading the pagination, the list
\* is exactly that one url.
C11_PagesStartSortedAndDegradeToOne ==
    gpc = "done" =>
        /\ pages # <<>>
        /\ NoDuplicates(pages)
        /\ SubSeq(pages[1], 1, Len(category_url)) = category_url
        /\ Len(pages[1]) = Len(category_url) + 2
        /\ pages[1][Len(pages[1])] = SortParam
        /\ (response.status = "None" \/ pages_raised) => Len(pages) = 1

(***************************************************************************)
(* Claims about the file's text, checked under SpecStore                   *)
(***************************************************************************)
\* C13: for any set of keys, save_seen_products followed by
\* load_seen_products gives back exactly that set, in whatever order the
\* keys were written.
C13_SaveThenLoadIsTheSameSet ==
    /\ spc = "done" => store_loaded = store_keys
    /\ spc = "load" =>
          \A l \in Orders(store_keys) : LoadText(json_dump(l)) = store_keys

\* C13 witness: three keys, among them a quote and a backslash followed by
\* n, were written with the quote first and loaded back.
C13_Witness ==
    /\ spc = "done"
    /\ Cardinality(store_keys) = 3
    /\ <<BS, "n">> \in store_keys
    /\ SubSeq(store_text, 5, 8) = <<DQ, BS, DQ, DQ>>
    /\ store_loaded = store_keys

(***************************************************************************)
(* Claims about get_all_categories, checked under SpecCats                 *)
(***************************************************************************)
\* the selectors with a match on the base page
Matching == {i \in 1..MenuSelectors : menu.matches[i] # <<>>}
\* the category links among the matches of selector i
CategoryLinksOf(i) ==
    {urljoin(BaseUrl, menu.matches[i][n]) :
        n \in {m \in DOMAIN menu.matches[i] : /\ menu.matches[i][m] # BadHref
                                             /\ IsCategoryLink(BaseUrl, menu.matches[i][m])}}

\* C14: category discovery is first-match-wins: the returned categories are
\* links the first selector with any match matched; a link only a later
\* selector matches is not returned.
C14_FirstMatchingSelectorWins ==
    (cpc = "done" /\ ~cats_raised /\ Matching # {}) =>
        discovered \subseteq
            CategoryLinksOf(CHOOSE i \in Matching : \A j \in Matching : i <= j)

====
